---- MODULE Spec2Model ----
(***************************************************************************)
(* Reconstruction of documents from per-page OCR output (postprocess.py)   *)
(* and the completeness audit (utils/check_complete_results.py).           *)
(*                                                                         *)
(* A Python str is modelled as the non-empty sequence of its segments      *)
(* between "\n" characters: "" is <<"">>, "a\nb" is <<"a","b">>, "a\n" is  *)
(* <<"a","">>.  A page number read from a file name is a Python str of     *)
(* decimal digits, modelled as the sequence of its digits.                 *)
(***************************************************************************)
EXTENDS Integers, Sequences, FiniteSets, TLC

\* ------------------------------------------------------------------ bounds
MaxPage == 2       \* page artifacts are numbered 1..MaxPage, and BigPage
BigPage == 10      \* one page number with two digits
MaxFiles == 3      \* page artifacts on disk in one run of postprocess.py
MaxLines == 4      \* segments of a str given to the page rules on their own
MaxPdfs == 2       \* source documents in one run of the audit
MaxTars == 2       \* tar files in data_dir in one run of extract_pdfs.py
MaxMembers == 2    \* PDF members of one tar file

\* ------------------------------------------------------------------ lines
\* The lines that occur in page texts.  Python's str predicates on a line are
\* tabulated over this alphabet.
Lines ==
  { "# Title", "Author A, Author B", "# Abstract", "Abstract: lorem",
    "Lorem ipsum", "# References", "## REFERENCES", "see references [1]",
    "# Reference list", "" }

\* line.startswith("#")
StartsWithHash(line) ==
  line \in { "# Title", "# Abstract", "# References", "## REFERENCES",
             "# Reference list" }

\* "abstract" in line.lower()
ContainsAbstract(line) == line \in { "# Abstract", "Abstract: lorem" }

\* "references" in line.lower()
ContainsReferences(line) ==
  line \in { "# References", "## REFERENCES", "see references [1]" }

\* line.lower().startswith("# reference")
StartsWithRefHeading(line) == line \in { "# References", "# Reference list" }

\* ------------------------------------------------------------------ str
\* str.splitlines(): the segments, without the empty one after a final "\n".
splitlines(s) == IF s[Len(s)] = "" THEN SubSeq(s, 1, Len(s) - 1) ELSE s

\* "\n".join(lines) for a list of lines without "\n" in them.
join(lines) == IF lines = <<>> THEN <<"">> ELSE lines

\* "\n".join(strs) for a list of strs: a "\n" between two strs is a segment
\* boundary, so the segments are concatenated.
RECURSIVE Concat(_)
Concat(strs) ==
  IF strs = <<>> THEN <<>> ELSE Head(strs) \o Concat(Tail(strs))

join_strs(strs) == IF strs = <<>> THEN <<"">> ELSE Concat(strs)

\* lines[i:] for a 0-based index i.
From(lines, i) == SubSeq(lines, i + 1, Len(lines))

\* lines[:i] for a 0-based index i.
Upto(lines, i) == SubSeq(lines, 1, i)

\* ------------------------------------------------------------------ page numbers
\* str(n) for n >= 1, as the sequence of its decimal digits.
RECURSIVE ToStr(_)
ToStr(n) == IF n < 10 THEN <<n>> ELSE ToStr(n \div 10) \o <<n % 10>>

\* int(s) for a str of decimal digits.
RECURSIVE ToInt(_)
ToInt(s) ==
  IF Len(s) = 1 THEN s[1]
  ELSE 10 * ToInt(SubSeq(s, 1, Len(s) - 1)) + s[Len(s)]

\* ------------------------------------------------------------------ classifier
\* detect_headers: the (0-based index, line) pairs of the lines starting with "#".
RECURSIVE HeadersFrom(_, _)
HeadersFrom(lines, i) ==
  IF i >= Len(lines) THEN <<>>
  ELSE (IF StartsWithHash(lines[i + 1]) THEN << <<i, lines[i + 1]>> >> ELSE <<>>)
       \o HeadersFrom(lines, i + 1)

detect_headers(mmd) == HeadersFrom(splitlines(mmd), 0)

has_abstract(mmd) ==
  \E i \in 1..Len(splitlines(mmd)) : ContainsAbstract(splitlines(mmd)[i])

IsReferencesHeading(line) == StartsWithHash(line) /\ ContainsReferences(line)

find_references(mmd) ==
  \E i \in 1..Len(splitlines(mmd)) : IsReferencesHeading(splitlines(mmd)[i])

IsAbstractHeading(line) == StartsWithHash(line) /\ ContainsAbstract(line)

\* The 0-based index at which the loop over enumerate(lines) stops: that of
\* the first line among the 0-based indexes hits, or dflt when hits is empty.
FirstIndex(hits, dflt) ==
  IF hits = {} THEN dflt ELSE CHOOSE i \in hits : \A j \in hits : i <= j

\* remove_authors raises IndexError (lines[0]) on a str without lines.
remove_authors_raises(mmd) == splitlines(mmd) = <<>>

AbstractLine(lines) ==
  FirstIndex({ i \in 0..(Len(lines) - 1) : IsAbstractHeading(lines[i + 1]) }, 0)

\* A bug: the slice starts after the abstract heading, lines[abstract_line + 1:].
remove_authors_AfterHeading(mmd) ==
  LET lines == splitlines(mmd)
      abstract_line == AbstractLine(lines)
  IN  join(<<lines[1], "">> \o From(lines, abstract_line + 1))

remove_authors(mmd) ==
  LET lines == splitlines(mmd)
      abstract_line == AbstractLine(lines)
  IN  join(<<lines[1], "">> \o From(lines, abstract_line))

\* A bug: the slice keeps the references heading, lines[:i + 1].
remove_references_KeepHeading(mmd) ==
  LET lines == splitlines(mmd)
      i == FirstIndex({ j \in 0..(Len(lines) - 1) :
                          IsReferencesHeading(lines[j + 1]) }, -1)
  IN  IF i >= 0 THEN join(Upto(lines, i + 1)) ELSE mmd

remove_references(mmd) ==
  LET lines == splitlines(mmd)
      i == FirstIndex({ j \in 0..(Len(lines) - 1) :
                          IsReferencesHeading(lines[j + 1]) }, -1)
  IN  IF i >= 0 THEN join(Upto(lines, i)) ELSE mmd

\* ------------------------------------------------------------------ disk layout
Months == { "0001", "0002" }      \* period directories under input_dir
Ids == { "a", "b" }               \* document identifiers
PageNums == (1..MaxPage) \cup { BigPage }

\* <input_dir>/<month>/<id>_<page>.mmd, as written by the OCR stage.  Document
\* "a" can have any of its pages in month 0001 and pages 1 and 2 in month
\* 0002; "b" is a second document, of one page in one month.
FileNames ==
  { f \in [ month : Months, id : Ids, page : { ToStr(n) : n \in PageNums } ] :
      \/ f.id = "a" /\ (f.month = "0001" \/ f.page \in { ToStr(1), ToStr(2) })
      \/ f.id = "b" /\ f.month = "0001" /\ f.page = ToStr(1) }

\* The page texts of the reconstruction runs.
PageTexts ==
  { << "# Title", "Author A, Author B", "# Abstract", "Lorem ipsum" >>,
    << "# Title", "Lorem ipsum", "# References", "see references [1]", "" >>,
    << "# Title", "# Abstract", "Lorem ipsum", "## REFERENCES" >>,
    << "# References", "Abstract: lorem" >>,
    << "" >> }

FileSystems ==
  UNION { [ D -> PageTexts ] :
            D \in { E \in SUBSET FileNames : Cardinality(E) <= MaxFiles } }

\* A file name <id>_<page>.mmd is the record of its month, id and page; a name
\* <base>.mmd without "_" is the record of its month and base.
\* parse_filename raises ValueError on a name without "_": rsplit returns one
\* part, and the assignment unpacks two.
parse_filename_raises(f) == "base" \in DOMAIN f

\* parse_filename: the name without ".mmd", split at its last "_".
parse_filename(f) == << f.id, f.page >>

\* int(s) raises ValueError unless s is a non-empty str of decimal digits; the
\* characters 0..9 are the digits.
int_raises(s) == s = <<>> \/ \E i \in 1..Len(s) : s[i] \notin 0..9

\* The content of a file that open or f.read fails on.
Undecodable == <<>>

\* read_mmd raises (OSError, UnicodeDecodeError) on such a file.
read_mmd_raises(fs, f) == fs[f] = Undecodable

\* read_mmd.
read_mmd(fs, f) == fs[f]

\* No exception has ended main; otherwise its type, and the article id or the
\* base name it was raised on.
NoError == [ type |-> "none", at |-> "" ]

\* All orders in which a directory listing can return the files of S.
Orders(S) ==
  { o \in [ 1..Cardinality(S) -> S ] :
      \A i, j \in 1..Cardinality(S) : i # j => o[i] # o[j] }

VARIABLES
  mmd,               \* the page artifacts on disk: file name -> str
  pc,                \* where main is
  months_done,       \* the month directories main has passed to the processor
  headers_detected,  \* ArticleProcessor.headers_detected
  abstract_detected, \* ArticleProcessor.abstract_detected
  reference_pages,   \* ArticleProcessor.reference_pages: id -> page str
  article_pages,     \* ArticleProcessor.article_pages: id -> list of page strs
  article_months,    \* ArticleProcessor.article_months: id -> month
  todo,              \* the valid articles postprocess_articles has yet to visit
  processed,         \* id -> processed_content, each element with its page number
  outputs,           \* the files written: <<month, id>> -> str
  pdfs,              \* the source documents: <<month, id>> -> << page count >> or Unreadable
  mmd_files,         \* check_complete_results: paper_id -> list of page numbers
  pdf_todo,          \* the PDF files the audit has yet to visit
  complete,          \* check_complete_results: the list complete
  incomplete,        \* check_complete_results: the list incomplete
  missing,           \* check_complete_results: the list missing
  gaps,              \* the "has gaps" lines printed: <<month, id>> -> missing_pages
  fn,                \* the function applied to arg, "none" before
  arg,               \* the argument of a function applied on its own
  res,               \* its result
  error,             \* the exception that ended main of postprocess.py, or NoError
  run,               \* how many times main of postprocess.py was started
  first_outputs,     \* the files on disk when its first run had ended
  keep_tars,         \* extract_pdfs.py: args.keep_tars
  tars,              \* the tar files found: name -> what is in it
  tar_files,         \* the tar files in data_dir
  tar_todo,          \* the tar files main of extract_pdfs.py has yet to visit
  extracted,         \* tar name -> how many of its PDF members were extracted
  successful,        \* extract_pdfs.py: main's counter successful
  failed             \* extract_pdfs.py: main's counter failed

procvars ==
  << headers_detected, abstract_detected, reference_pages, article_pages,
     article_months >>

postvars == << pc, months_done, procvars, todo, processed, outputs, error >>

runvars == << run, first_outputs >>

extractvars ==
  << keep_tars, tars, tar_files, tar_todo, extracted, successful, failed >>

auditvars == << pdfs, mmd_files, pdf_todo, complete, incomplete, missing, gaps >>

purevars == << fn, arg, res >>

vars == << mmd, postvars, auditvars, purevars, runvars, extractvars >>

\* f @@ (k :> v) with k overwritten when present: a dict assignment d[k] = v.
Put(d, k, v) == [ x \in DOMAIN d \cup { k } |-> IF x = k THEN v ELSE d[x] ]

\* The processor's fields as one record, for the scan of a directory.
Processor ==
  [ headers_detected |-> headers_detected,
    abstract_detected |-> abstract_detected,
    reference_pages |-> reference_pages,
    article_pages |-> article_pages,
    article_months |-> article_months ]

\* A bug: the heading and abstract signals are taken from every page.
IsFirstPage_AnyPage(page_num) == TRUE

\* Whether page_num is the first page: page_num == '1'.
IsFirstPage(page_num) == page_num = <<1>>

\* The body of the loop of process_month_directory for one file.
ScanFile(p, fs, f) ==
  LET paper_id == parse_filename(f)[1]
      page_num == parse_filename(f)[2]
      mmd_content == read_mmd(fs, f)
      old_pages == IF paper_id \in DOMAIN p.article_pages
                   THEN p.article_pages[paper_id] ELSE <<>>
      months == Put(p.article_months, paper_id, f.month)
      pages == Put(p.article_pages, paper_id, Append(old_pages, page_num))
  IN  IF read_mmd_raises(fs, f)
      THEN \* the except branch: the month and the page stay recorded
           [ p EXCEPT !.article_months = months, !.article_pages = pages ]
      ELSE
      [ article_months |-> months,
        article_pages |-> pages,
        abstract_detected |->
          IF IsFirstPage(page_num) /\ has_abstract(mmd_content)
          THEN p.abstract_detected \cup { paper_id } ELSE p.abstract_detected,
        headers_detected |->
          IF IsFirstPage(page_num) /\ Len(detect_headers(mmd_content)) > 1
          THEN p.headers_detected \cup { paper_id } ELSE p.headers_detected,
        reference_pages |->
          IF find_references(mmd_content)
          THEN Put(p.reference_pages, paper_id, page_num) ELSE p.reference_pages ]

\* The loop of process_month_directory over a listing: the processor's fields
\* when the loop ends, and the exception that ended it, raised by
\* parse_filename outside the try.
RECURSIVE ScanFiles(_, _, _)
ScanFiles(p, fs, listing) ==
  IF listing = <<>> THEN [ processor |-> p, error |-> NoError ]
  ELSE IF parse_filename_raises(Head(listing))
  THEN [ processor |-> p,
         error |-> [ type |-> "ValueError", at |-> Head(listing).base ] ]
  ELSE ScanFiles(ScanFile(p, fs, Head(listing)), fs, Tail(listing))

FilesOfMonth(fs, m) == { f \in DOMAIN fs : f.month = m }

\* ArticleProcessor.__init__, and nothing written yet.
PostInit(start) ==
  /\ pc = start
  /\ months_done = {}
  /\ headers_detected = {}
  /\ abstract_detected = {}
  /\ reference_pages = <<>>
  /\ article_pages = <<>>
  /\ article_months = <<>>
  /\ todo = {}
  /\ processed = <<>>
  /\ outputs = <<>>
  /\ error = NoError

\* The audit's lists before main of check_complete_results.py fills them.
AuditInit ==
  /\ mmd_files = <<>>
  /\ complete = <<>>
  /\ incomplete = <<>>
  /\ missing = <<>>
  /\ gaps = <<>>

PureIdle == fn = "none" /\ arg = <<"">> /\ res = <<"">>

\* main of postprocess.py is in its first run.
FirstRun == run = 1 /\ first_outputs = <<>>

\* No run of extract_pdfs.py.
ExtractIdle ==
  /\ keep_tars = FALSE
  /\ tars = <<>>
  /\ tar_files = {}
  /\ tar_todo = {}
  /\ extracted = <<>>
  /\ successful = 0
  /\ failed = 0

Init ==
  /\ mmd \in FileSystems
  /\ PostInit("index")
  /\ pdfs = <<>>
  /\ pdf_todo = {}
  /\ AuditInit
  /\ PureIdle
  /\ FirstRun
  /\ ExtractIdle

\* main's loop over input_dir.iterdir(): one call of process_month_directory.
process_month_directory(m) ==
  /\ pc = "index"
  /\ m \notin months_done
  /\ \E listing \in Orders(FilesOfMonth(mmd, m)) :
       LET s == ScanFiles(Processor, mmd, listing)
           p == s.processor
       IN  /\ headers_detected' = p.headers_detected
           /\ abstract_detected' = p.abstract_detected
           /\ reference_pages' = p.reference_pages
           /\ article_pages' = p.article_pages
           /\ article_months' = p.article_months
           /\ error' = s.error
           /\ IF s.error = NoError
              THEN pc' = pc /\ months_done' = months_done \cup { m }
              ELSE pc' = "crashed" /\ months_done' = months_done
  /\ UNCHANGED << mmd, todo, processed, outputs, auditvars, purevars, runvars,
                  extractvars >>

\* A bug: one signal is enough.
get_valid_articles_Union == headers_detected \cup abstract_detected

get_valid_articles == headers_detected \cap abstract_detected

\* ------------------------------------------------------------------ reconstruction
\* sorted(xs) for a list of ints.
RECURSIVE Insert(_, _)
Insert(x, xs) ==
  IF xs = <<>> THEN << x >>
  ELSE IF x <= Head(xs) THEN << x >> \o xs
  ELSE << Head(xs) >> \o Insert(x, Tail(xs))

RECURSIVE sorted(_)
sorted(xs) == IF xs = <<>> THEN <<>> ELSE Insert(Head(xs), sorted(Tail(xs)))

\* [int(p) for p in page_strs]
RECURSIVE Ints(_)
Ints(page_strs) ==
  IF page_strs = <<>> THEN <<>>
  ELSE << ToInt(Head(page_strs)) >> \o Ints(Tail(page_strs))

\* s <= t for two strs of digits, as Python compares strs.
RECURSIVE StrLeq(_, _)
StrLeq(s, t) ==
  IF s = <<>> THEN TRUE
  ELSE IF t = <<>> THEN FALSE
  ELSE IF Head(s) # Head(t) THEN Head(s) < Head(t)
  ELSE StrLeq(Tail(s), Tail(t))

RECURSIVE InsertStr(_, _)
InsertStr(x, xs) ==
  IF xs = <<>> THEN << x >>
  ELSE IF StrLeq(x, Head(xs)) THEN << x >> \o xs
  ELSE << Head(xs) >> \o InsertStr(x, Tail(xs))

RECURSIVE sorted_strs(_)
sorted_strs(xs) ==
  IF xs = <<>> THEN <<>> ELSE InsertStr(Head(xs), sorted_strs(Tail(xs)))

\* A bug: the page strs are sorted before they are converted,
\* [int(p) for p in sorted(article_pages[article_id])].
SortedPages_AsStrs(page_strs) == Ints(sorted_strs(page_strs))

\* pages = sorted([int(p) for p in processor.article_pages[article_id]])
SortedPages(page_strs) == sorted(Ints(page_strs))

\* input_dir / month / f"{article_id}_{page_num}.mmd"
mmd_path(month, article_id, page_num) ==
  [ month |-> month, id |-> article_id, page |-> ToStr(page_num) ]

\* A bug: the branch "elif page_num > ref_page: continue" is missing.
process_page_KeepLater(page_num, ref_page, content) ==
  IF page_num = 1
  THEN IF remove_authors_raises(content)
       THEN [ kind |-> "raise", content |-> content ]
       ELSE [ kind |-> "append", content |-> remove_authors(content) ]
  ELSE IF page_num = ref_page
  THEN IF splitlines(content) = <<>>
       THEN [ kind |-> "raise", content |-> content ]
       ELSE IF ~StartsWithRefHeading(splitlines(content)[1])
       THEN [ kind |-> "append", content |-> remove_references(content) ]
       ELSE [ kind |-> "skip", content |-> content ]
  ELSE [ kind |-> "append", content |-> content ]

\* What the body of the page loop does with a page that was read:
\* "append" its content, "skip" the page (continue), or "raise" IndexError.
process_page(page_num, ref_page, content) ==
  IF page_num = 1
  THEN IF remove_authors_raises(content)
       THEN [ kind |-> "raise", content |-> content ]
       ELSE [ kind |-> "append", content |-> remove_authors(content) ]
  ELSE IF page_num = ref_page
  THEN IF splitlines(content) = <<>>
       THEN [ kind |-> "raise", content |-> content ]
       ELSE IF ~StartsWithRefHeading(splitlines(content)[1])
       THEN [ kind |-> "append", content |-> remove_references(content) ]
       ELSE [ kind |-> "skip", content |-> content ]
  ELSE IF page_num > ref_page
  THEN [ kind |-> "skip", content |-> content ]
  ELSE [ kind |-> "append", content |-> content ]

\* The page loop of postprocess_articles: processed_content after the pages
\* listed, each element with the page it came from, and the exception a page
\* raised: read_mmd is called outside any try.
RECURSIVE PageLoop(_, _, _, _, _, _)
PageLoop(fs, month, article_id, pages, ref_page, acc) ==
  IF pages = <<>>
  THEN [ raised |-> FALSE, error |-> "none", processed_content |-> acc ]
  ELSE
    LET page_num == Head(pages)
        path == mmd_path(month, article_id, page_num)
    IN  IF path \notin DOMAIN fs
        THEN PageLoop(fs, month, article_id, Tail(pages), ref_page, acc)
        ELSE IF read_mmd_raises(fs, path)
        THEN [ raised |-> TRUE, error |-> "UnicodeDecodeError",
               processed_content |-> acc ]
        ELSE
          LET r == process_page(page_num, ref_page, read_mmd(fs, path))
          IN  IF r.kind = "raise"
              THEN [ raised |-> TRUE, error |-> "IndexError",
                     processed_content |-> acc ]
              ELSE PageLoop(fs, month, article_id, Tail(pages), ref_page,
                            IF r.kind = "append"
                            THEN Append(acc, [ page |-> page_num,
                                               content |-> r.content ])
                            ELSE acc)

\* [c.content for c in processed_content]
RECURSIVE Contents(_)
Contents(parts) ==
  IF parts = <<>> THEN <<>>
  ELSE << Head(parts).content >> \o Contents(Tail(parts))

\* A bug: an article whose recorded pages are not 1..max is passed over too.
Skipped_IfGaps(article_id) ==
  \/ article_id \notin DOMAIN reference_pages
  \/ article_id \notin DOMAIN article_pages
  \/ LET pages == article_pages[article_id]
     IN  \E i \in 1..Len(pages) :
           \E n \in 1..(ToInt(pages[i]) - 1) :
             \A j \in 1..Len(pages) : ToInt(pages[j]) # n

\* Whether postprocess_articles passes over the article (line 111).
Skipped(article_id) ==
  \/ article_id \notin DOMAIN reference_pages
  \/ article_id \notin DOMAIN article_pages

\* The loop over one article, for the processor's fields as they stand; int
\* raises on a page number that is no str of digits (lines 119-120).
Reconstruction(article_id) ==
  IF \/ \E i \in 1..Len(article_pages[article_id]) :
          int_raises(article_pages[article_id][i])
     \/ int_raises(reference_pages[article_id])
  THEN [ raised |-> TRUE, error |-> "ValueError", processed_content |-> <<>> ]
  ELSE PageLoop(mmd, article_months[article_id], article_id,
                SortedPages(article_pages[article_id]),
                ToInt(reference_pages[article_id]), <<>>)

\* A bug: the file is written without the test of processed_content.
IsWritten_Always(processed_content) == TRUE

\* "if processed_content:" (line 142): the list is not empty.
IsWritten(processed_content) == processed_content # <<>>

\* main, after the loop over the month directories: postprocess_articles starts.
start_postprocess ==
  /\ pc = "index"
  /\ months_done = Months
  /\ pc' = "postprocess"
  /\ todo' = get_valid_articles
  /\ UNCHANGED << mmd, months_done, procvars, processed, outputs, error,
                  auditvars, purevars, runvars, extractvars >>

\* One pass of the loop of postprocess_articles that ends in "continue".
skip_article(article_id) ==
  /\ pc = "postprocess"
  /\ article_id \in todo
  /\ Skipped(article_id)
  /\ todo' = todo \ { article_id }
  /\ UNCHANGED << mmd, pc, months_done, procvars, processed, outputs, error,
                  auditvars, purevars, runvars, extractvars >>

\* One pass of the loop of postprocess_articles that reaches the page loop.
reconstruct_article(article_id) ==
  /\ pc = "postprocess"
  /\ article_id \in todo
  /\ ~Skipped(article_id)
  /\ LET r == Reconstruction(article_id)
         month == article_months[article_id]
     IN  IF r.raised
         THEN /\ pc' = "crashed"
              /\ error' = [ type |-> r.error, at |-> article_id ]
              /\ UNCHANGED << todo, processed, outputs >>
         ELSE /\ pc' = pc
              /\ error' = error
              /\ todo' = todo \ { article_id }
              /\ processed' = Put(processed, article_id, r.processed_content)
              /\ outputs' =
                   IF IsWritten(r.processed_content)
                   THEN Put(outputs, << month, article_id >>,
                            join_strs(Contents(r.processed_content)))
                   ELSE outputs
  /\ UNCHANGED << mmd, months_done, procvars, auditvars, purevars, runvars,
                  extractvars >>

\* postprocess_articles has returned, and main ends.
Returned == pc = "postprocess" /\ todo = {}

Next ==
  \/ \E m \in Months : process_month_directory(m)
  \/ start_postprocess
  \/ \E article_id \in Ids : skip_article(article_id)
  \/ \E article_id \in Ids : reconstruct_article(article_id)

\* postprocess.py: main over any layout of at most MaxFiles page artifacts.
Spec == Init /\ [][Next]_vars

\* ------------------------------------------------------------------ a second run
\* The layouts with every page artifact in one period directory.
OnePeriodFileSystems ==
  { fs \in FileSystems : \A f \in DOMAIN fs : f.month = "0001" }

InitTwice ==
  /\ mmd \in OnePeriodFileSystems
  /\ PostInit("index")
  /\ pdfs = <<>>
  /\ pdf_todo = {}
  /\ AuditInit
  /\ PureIdle
  /\ FirstRun
  /\ ExtractIdle

\* main has returned and postprocess.py is started again over the same
\* input_dir and output_dir: a new ArticleProcessor, the files written by the
\* first run still on disk.
rerun ==
  /\ Returned
  /\ run = 1
  /\ run' = 2
  /\ first_outputs' = outputs
  /\ pc' = "index"
  /\ months_done' = {}
  /\ headers_detected' = {}
  /\ abstract_detected' = {}
  /\ reference_pages' = <<>>
  /\ article_pages' = <<>>
  /\ article_months' = <<>>
  /\ processed' = <<>>
  /\ UNCHANGED << mmd, todo, outputs, error, auditvars, purevars, extractvars >>

NextTwice ==
  \/ Next
  \/ rerun

\* postprocess.py run twice over one layout of a single period.
SpecTwice == InitTwice /\ [][NextTwice]_vars

\* ------------------------------------------------------------------ bad files
\* A page part of one character that is no digit, as in a_x.mmd.
NonNumericPage == << 10 >>

\* The *.mmd files of the runs with bad files, all in one period: pages 1 and
\* 2 of "a", a file of "a" with a non-numeric page part, page 1 of "b", and a
\* file without "_" in its name.
FaultFileNames ==
  { [ month |-> "0001", id |-> "a", page |-> ToStr(1) ],
    [ month |-> "0001", id |-> "a", page |-> ToStr(2) ],
    [ month |-> "0001", id |-> "a", page |-> NonNumericPage ],
    [ month |-> "0001", id |-> "b", page |-> ToStr(1) ],
    [ month |-> "0001", base |-> "notes" ] }

FaultFileSystems ==
  UNION { [ D -> PageTexts \cup { Undecodable } ] :
            D \in { E \in SUBSET FaultFileNames : Cardinality(E) <= MaxFiles } }

InitFaults ==
  /\ mmd \in FaultFileSystems
  /\ PostInit("index")
  /\ pdfs = <<>>
  /\ pdf_todo = {}
  /\ AuditInit
  /\ PureIdle
  /\ FirstRun
  /\ ExtractIdle

\* postprocess.py: main over layouts with malformed names and unreadable files.
SpecFaults == InitFaults /\ [][Next]_vars

\* ------------------------------------------------------------------ page rules alone
\* Every str of at most MaxLines segments over the alphabet.
Strs == UNION { [ 1..n -> Lines ] : n \in 1..MaxLines }

InitPage ==
  /\ mmd = <<>>
  /\ PostInit("page")
  /\ pdfs = <<>>
  /\ pdf_todo = {}
  /\ AuditInit
  /\ fn = "none"
  /\ arg \in Strs
  /\ res = <<"">>
  /\ FirstRun
  /\ ExtractIdle

\* The body of the page loop of postprocess_articles (lines 128-140) on one
\* page that was read.
apply_process_page(page_num, ref_page) ==
  /\ pc = "page"
  /\ fn = "none"
  /\ fn' = "process_page"
  /\ res' = [ page_num |-> page_num, ref_page |-> ref_page,
              out |-> process_page(page_num, ref_page, arg) ]
  /\ UNCHANGED << mmd, postvars, auditvars, arg, runvars, extractvars >>

NextPage ==
  \E page_num \in PageNums, ref_page \in PageNums :
     apply_process_page(page_num, ref_page)

\* postprocess.py: the rules of the page loop on any page text.
SpecPage == InitPage /\ [][NextPage]_vars

\* ------------------------------------------------------------------ audit
\* What get_pdf_page_count returns: None, or the page count n as << n >>.
Unreadable == <<>>

\* <pdf_dir>/<month>/<id>.pdf
PdfNames == { << f.month, f.id >> : f \in FileNames }

PdfPageCounts == 1..(MaxPage + 1)

\* The page artifacts of the audit runs: pages 1..MaxPage of "a" in either
\* month and of "b" in one month.
AuditFileNames ==
  { f \in [ month : Months, id : Ids, page : { ToStr(n) : n \in 1..MaxPage } ] :
      f.id = "a" \/ f.month = "0001" }

PdfDirs ==
  UNION { [ D -> { << n >> : n \in PdfPageCounts } \cup { Unreadable } ] :
            D \in { E \in SUBSET PdfNames : Cardinality(E) <= MaxPdfs } }

\* The audit reads the names of the page artifacts only.
AuditFileSystems ==
  UNION { [ D -> { << "" >> } ] :
            D \in { E \in SUBSET AuditFileNames : Cardinality(E) <= MaxFiles } }

InitAudit ==
  /\ mmd \in AuditFileSystems
  /\ PostInit("collect")
  /\ pdfs \in PdfDirs
  /\ pdf_todo = DOMAIN pdfs
  /\ AuditInit
  /\ PureIdle
  /\ FirstRun
  /\ ExtractIdle

\* The body of the inner loop of collect_mmd_files for one file name.
CollectFile(mf, f) ==
  LET paper_id == f.id
      page_num == f.page
      old == IF paper_id \in DOMAIN mf THEN mf[paper_id] ELSE <<>>
  IN  Put(mf, paper_id, Append(old, ToInt(page_num)))

RECURSIVE CollectFiles(_, _)
CollectFiles(mf, listing) ==
  IF listing = <<>> THEN mf
  ELSE CollectFiles(CollectFile(mf, Head(listing)), Tail(listing))

\* The listings of os.listdir: the months in some order, and within each month
\* its files in some order.
Listings(fs) ==
  { l1 \o l2 :
      l1 \in Orders(FilesOfMonth(fs, "0001")),
      l2 \in Orders(FilesOfMonth(fs, "0002")) }
  \cup
  { l2 \o l1 :
      l1 \in Orders(FilesOfMonth(fs, "0001")),
      l2 \in Orders(FilesOfMonth(fs, "0002")) }

collect_mmd_files ==
  /\ pc = "collect"
  /\ \E listing \in Listings(mmd) : mmd_files' = CollectFiles(<<>>, listing)
  /\ pc' = "check"
  /\ UNCHANGED << mmd, months_done, procvars, todo, processed, outputs, error,
                  pdfs, pdf_todo, complete, incomplete, missing, gaps, purevars,
                  runvars, extractvars >>

\* max(xs) for a non-empty list of ints.
max(xs) == CHOOSE x \in { xs[i] : i \in 1..Len(xs) } :
             \A i \in 1..Len(xs) : xs[i] <= x

\* set(xs)
set(xs) == { xs[i] : i \in 1..Len(xs) }

\* sorted(S) for a set of ints.
RECURSIVE sorted_set(_)
sorted_set(S) ==
  IF S = {} THEN <<>>
  ELSE LET lo == CHOOSE x \in S : \A y \in S : x <= y
       IN  << lo >> \o sorted_set(S \ { lo })

\* A bug: a paper without MMD files is reported as incomplete with 0 files.
classify_NoMissing(paper_id, pdf_pages, mf) ==
  IF paper_id \in DOMAIN mf
  THEN LET mmd_pages == Len(mf[paper_id])
           max_page == max(mf[paper_id])
           expected_pages == 1..max_page
           actual_pages == set(mf[paper_id])
       IN  IF mmd_pages = pdf_pages /\ expected_pages = actual_pages
           THEN [ list |-> "complete", entry |-> << paper_id, pdf_pages >>,
                  printed |-> <<>> ]
           ELSE [ list |-> "incomplete",
                  entry |-> << paper_id, pdf_pages, mmd_pages >>,
                  printed |->
                    IF expected_pages # actual_pages
                    THEN << << paper_id,
                               sorted_set(expected_pages \ actual_pages) >> >>
                    ELSE <<>> ]
  ELSE [ list |-> "incomplete", entry |-> << paper_id, pdf_pages, 0 >>,
         printed |-> <<>> ]

\* Lines 73-89 of main for one PDF whose page count was read: the list the
\* paper is appended to, the entry, and the "has gaps" line when one is printed.
classify(paper_id, pdf_pages, mf) ==
  IF paper_id \in DOMAIN mf
  THEN LET mmd_pages == Len(mf[paper_id])
           max_page == max(mf[paper_id])
           expected_pages == 1..max_page
           actual_pages == set(mf[paper_id])
       IN  IF mmd_pages = pdf_pages /\ expected_pages = actual_pages
           THEN [ list |-> "complete", entry |-> << paper_id, pdf_pages >>,
                  printed |-> <<>> ]
           ELSE [ list |-> "incomplete",
                  entry |-> << paper_id, pdf_pages, mmd_pages >>,
                  printed |->
                    IF expected_pages # actual_pages
                    THEN << << paper_id,
                               sorted_set(expected_pages \ actual_pages) >> >>
                    ELSE <<>> ]
  ELSE [ list |-> "missing", entry |-> << paper_id, pdf_pages >>,
         printed |-> <<>> ]

\* A bug: a PDF that cannot be read is taken to have no pages.
get_pdf_page_count_Zero(pdf_path) ==
  IF pdfs[pdf_path] = Unreadable THEN << 0 >> ELSE pdfs[pdf_path]

\* get_pdf_page_count: None when PdfReader raises.
get_pdf_page_count(pdf_path) == pdfs[pdf_path]

\* One pass of main's loop over the PDF files whose page count cannot be read.
skip_pdf(k) ==
  /\ pc = "check"
  /\ k \in pdf_todo
  /\ get_pdf_page_count(k) = Unreadable
  /\ pdf_todo' = pdf_todo \ { k }
  /\ UNCHANGED << mmd, postvars, pdfs, mmd_files, complete, incomplete, missing,
                  gaps, purevars, runvars, extractvars >>

\* One pass of main's loop over the PDF files whose page count was read.
check_pdf(k) ==
  /\ pc = "check"
  /\ k \in pdf_todo
  /\ get_pdf_page_count(k) # Unreadable
  /\ LET c == classify(k[2], get_pdf_page_count(k)[1], mmd_files)
     IN  /\ complete' =
               IF c.list = "complete" THEN Append(complete, c.entry) ELSE complete
         /\ incomplete' =
               IF c.list = "incomplete" THEN Append(incomplete, c.entry)
               ELSE incomplete
         /\ missing' =
               IF c.list = "missing" THEN Append(missing, c.entry) ELSE missing
         /\ gaps' = gaps \o c.printed
  /\ pdf_todo' = pdf_todo \ { k }
  /\ UNCHANGED << mmd, postvars, pdfs, mmd_files, purevars, runvars,
                  extractvars >>

\* main prints the summary.
summary ==
  /\ pc = "check"
  /\ pdf_todo = {}
  /\ pc' = "audited"
  /\ UNCHANGED << mmd, months_done, procvars, todo, processed, outputs, error,
                  auditvars, purevars, runvars, extractvars >>

NextAudit ==
  \/ collect_mmd_files
  \/ \E k \in PdfNames : skip_pdf(k)
  \/ \E k \in PdfNames : check_pdf(k)
  \/ summary

\* utils/check_complete_results.py: main over any layout of at most MaxFiles
\* page artifacts and MaxPdfs source documents.
SpecAudit == InitAudit /\ [][NextAudit]_vars

\* ------------------------------------------------------------------ tar extraction
\* tar_path.stem.split("_") of the tar files: two well-formed names, one with
\* a year that is no number, one with four parts, one without "_".
TarStems ==
  { << "arXiv", "pdf", "23", "10", "1" >>,
    << "arXiv", "pdf", "23", "10", "2" >>,
    << "arXiv", "pdf", "xx", "10", "1" >>,
    << "arXiv", "pdf", "2310", "1" >>,
    << "backup" >> }

\* part.isdigit()
isdigit(part) == part \in { "23", "10", "2310", "1", "2" }

\* The statement that raises in a call of extract_pdfs_from_tar, if any:
\* output_dir.mkdir, tarfile.open or getmembers, tar.extract of the member
\* numbered member, or tar_path.unlink.
NoFault == [ step |-> "none", member |-> 0 ]

Faults(members) ==
  { NoFault }
  \cup { [ step |-> st, member |-> 0 ] : st \in { "mkdir", "open", "unlink" } }
  \cup { [ step |-> "extract", member |-> i ] : i \in 1..members }

\* A bug: the tar file is unlinked in a finally clause, also after an
\* extraction that raised.
extract_pdfs_from_tar_UnlinkAlways(parts, members, keep_tar, fault) ==
  IF Len(parts) # 5 \/ ~isdigit(parts[3]) \/ ~isdigit(parts[4])
  THEN [ ret |-> FALSE, count |-> 0, unlinked |-> FALSE, raised |-> "none" ]
  ELSE IF fault.step \in { "mkdir", "open" }
  THEN [ ret |-> FALSE, count |-> 0, unlinked |-> ~keep_tar,
         raised |-> fault.step ]
  ELSE IF fault.step = "extract"
  THEN [ ret |-> FALSE, count |-> fault.member - 1, unlinked |-> ~keep_tar,
         raised |-> "extract" ]
  ELSE IF keep_tar
  THEN [ ret |-> TRUE, count |-> members, unlinked |-> FALSE, raised |-> "none" ]
  ELSE IF fault.step = "unlink"
  THEN [ ret |-> FALSE, count |-> members, unlinked |-> FALSE,
         raised |-> "unlink" ]
  ELSE [ ret |-> TRUE, count |-> members, unlinked |-> TRUE, raised |-> "none" ]

\* extract_pdfs_from_tar on a tar file of the given name parts and number of
\* PDF members: the value returned, how many members were extracted, whether
\* the tar file was unlinked, and the step that raised.
extract_pdfs_from_tar(parts, members, keep_tar, fault) ==
  IF Len(parts) # 5 \/ ~isdigit(parts[3]) \/ ~isdigit(parts[4])
  THEN [ ret |-> FALSE, count |-> 0, unlinked |-> FALSE, raised |-> "none" ]
  ELSE IF fault.step \in { "mkdir", "open" }
  THEN [ ret |-> FALSE, count |-> 0, unlinked |-> FALSE, raised |-> fault.step ]
  ELSE IF fault.step = "extract"
  THEN [ ret |-> FALSE, count |-> fault.member - 1, unlinked |-> FALSE,
         raised |-> "extract" ]
  ELSE IF keep_tar
  THEN [ ret |-> TRUE, count |-> members, unlinked |-> FALSE, raised |-> "none" ]
  ELSE IF fault.step = "unlink"
  THEN [ ret |-> FALSE, count |-> members, unlinked |-> FALSE,
         raised |-> "unlink" ]
  ELSE [ ret |-> TRUE, count |-> members, unlinked |-> TRUE, raised |-> "none" ]

\* data_dir: at most MaxTars tar files, each with 0..MaxMembers PDF members.
TarDirs ==
  UNION { [ D -> 0..MaxMembers ] :
            D \in { E \in SUBSET TarStems : Cardinality(E) <= MaxTars } }

InitExtract ==
  /\ mmd = <<>>
  /\ PostInit("extract")
  /\ pdfs = <<>>
  /\ pdf_todo = {}
  /\ AuditInit
  /\ PureIdle
  /\ FirstRun
  /\ keep_tars \in BOOLEAN
  /\ tars \in TarDirs
  /\ tar_files = DOMAIN tars
  /\ tar_todo = DOMAIN tars
  /\ extracted = <<>>
  /\ successful = 0
  /\ failed = 0

\* main returns at once when get_tar_files finds nothing.
no_tar_files ==
  /\ pc = "extract"
  /\ tars = <<>>
  /\ pc' = "extracted"
  /\ UNCHANGED << mmd, months_done, procvars, todo, processed, outputs, error,
                  auditvars, purevars, runvars, extractvars >>

\* One pass of main's loop over tar_files: the call and the count.
extract_tar(tar_path) ==
  /\ pc = "extract"
  /\ tar_path \in tar_todo
  /\ \E fault \in Faults(tars[tar_path]) :
       LET r == extract_pdfs_from_tar(tar_path, tars[tar_path], keep_tars, fault)
       IN  /\ extracted' = Put(extracted, tar_path, r)
           /\ tar_files' = IF r.unlinked THEN tar_files \ { tar_path }
                           ELSE tar_files
           /\ successful' = IF r.ret THEN successful + 1 ELSE successful
           /\ failed' = IF r.ret THEN failed ELSE failed + 1
  /\ tar_todo' = tar_todo \ { tar_path }
  /\ UNCHANGED << mmd, postvars, auditvars, purevars, runvars, keep_tars, tars >>

\* main logs the final statistics.
extraction_complete ==
  /\ pc = "extract"
  /\ tars # <<>>
  /\ tar_todo = {}
  /\ pc' = "extracted"
  /\ UNCHANGED << mmd, months_done, procvars, todo, processed, outputs, error,
                  auditvars, purevars, runvars, extractvars >>

NextExtract ==
  \/ no_tar_files
  \/ \E tar_path \in TarStems : extract_tar(tar_path)
  \/ extraction_complete

\* arxiv-tools/extract_pdfs.py: main over any data_dir of at most MaxTars tar
\* files, with any one statement of each call raising.
SpecExtract == InitExtract /\ [][NextExtract]_vars

\* ------------------------------------------------------------------ claims
Indexed == months_done = Months

\* The page artifacts of a document id, and those numbered n.
FilesOf(id) == { f \in DOMAIN mmd : f.id = id }
PagesNumbered(id, n) == { f \in FilesOf(id) : ToInt(f.page) = n }

\* The number of lines of a text that start with "#".
HeadingCount(text) ==
  Cardinality({ i \in 1..Len(splitlines(text)) :
                  StartsWithHash(splitlines(text)[i]) })

HasAbstractLine(text) ==
  \E i \in 1..Len(splitlines(text)) : ContainsAbstract(splitlines(text)[i])

HasReferencesHeading(text) ==
  \E i \in 1..Len(splitlines(text)) :
     /\ StartsWithHash(splitlines(text)[i])
     /\ ContainsReferences(splitlines(text)[i])

\* The periods in which a document id has page artifacts.
PeriodsOf(id) == { f.month : f \in FilesOf(id) }

\* C1: after indexing, a document is in the valid set iff its page 1 has more
\* than one line starting with "#" and its page 1 has a line containing
\* "abstract"; pages other than page 1 never count.  (For an id with page
\* artifacts in two periods, each signal is taken over its pages numbered 1.)
C1_ValidIffFirstPageSignals ==
  Indexed =>
    \A id \in Ids :
      id \in get_valid_articles <=>
        /\ \E f \in PagesNumbered(id, 1) : HeadingCount(mmd[f]) > 1
        /\ \E f \in PagesNumbered(id, 1) : HasAbstractLine(mmd[f])

\* C1 witness: after indexing, "b" is valid; "a" is not, though its page 1 has
\* the abstract signal and a later page of "a" has both signals.
C1_Witness ==
  /\ Indexed
  /\ "b" \in get_valid_articles
  /\ "a" \notin get_valid_articles
  /\ \E f \in PagesNumbered("a", 1) :
       HasAbstractLine(mmd[f]) /\ HeadingCount(mmd[f]) = 1
  /\ \E f \in FilesOf("a") :
       /\ ToInt(f.page) > 1
       /\ HasAbstractLine(mmd[f])
       /\ HeadingCount(mmd[f]) > 1

\* The smallest page number of a document id that has a references heading.
FirstReferencesPage(id) ==
  CHOOSE n \in PageNums :
    /\ \E f \in PagesNumbered(id, n) : HasReferencesHeading(mmd[f])
    /\ \A f \in FilesOf(id) :
         HasReferencesHeading(mmd[f]) => n <= ToInt(f.page)

\* C5: after indexing, the references page recorded for a document is the
\* smallest page number on which a references heading appears, whatever the
\* order in which the page files were listed.
C5_ReferencesPageIsSmallest ==
  Indexed =>
    \A id \in DOMAIN reference_pages :
      ToInt(reference_pages[id]) = FirstReferencesPage(id)

\* C6: a reconstructed document with recorded references page r holds no
\* content of a page numbered above r: the file written is the join of the
\* contents kept, and none of them comes from such a page.
C6_NothingBeyondReferencesPage ==
  \A id \in DOMAIN processed :
    /\ \A i \in 1..Len(processed[id]) :
         processed[id][i].page <= ToInt(reference_pages[id])
    /\ processed[id] # <<>> =>
         outputs[<< article_months[id], id >>] =
           join_strs(Contents(processed[id]))

\* C6 witness: a document was reconstructed and written, and its period holds
\* a page of it numbered above its references page.
C6_Witness ==
  \E id \in DOMAIN processed :
    /\ << article_months[id], id >> \in DOMAIN outputs
    /\ \E f \in FilesOf(id) :
         /\ f.month = article_months[id]
         /\ ToInt(f.page) > ToInt(reference_pages[id])
         /\ mmd[f] # << "" >>

\* C9: an output file is written for a document only if it is in the valid set
\* and a references page was recorded for it; a document that fails the gate,
\* or is valid without a references page, gets no output and does not stop the
\* run: only a valid document with a references page can raise, and every
\* valid document the loop has passed was skipped or reconstructed.
C9_OutputOnlyForValidWithReferences ==
  /\ \A k \in DOMAIN outputs :
       /\ k[2] \in headers_detected
       /\ k[2] \in abstract_detected
       /\ k[2] \in DOMAIN reference_pages
  /\ \A id \in DOMAIN processed :
       /\ id \in headers_detected
       /\ id \in abstract_detected
       /\ id \in DOMAIN reference_pages
  /\ pc = "crashed" =>
       \E id \in todo :
         /\ id \in headers_detected \cap abstract_detected
         /\ id \in DOMAIN reference_pages
  /\ pc = "postprocess" =>
       \A id \in (headers_detected \cap abstract_detected) \ todo :
         \/ id \notin DOMAIN reference_pages
         \/ id \in DOMAIN processed

\* C9 witness: the run ended with an output for one document, and the other
\* document was valid without a references page.
C9_Witness ==
  /\ Returned
  /\ \E m \in Months : << m, "a" >> \in DOMAIN outputs
  /\ "b" \in get_valid_articles
  /\ "b" \notin DOMAIN reference_pages
  /\ \A m \in Months : << m, "b" >> \notin DOMAIN outputs

\* C10: in a reconstruction the pages kept are in ascending numeric order
\* (strictly, for a document of one period), whatever the order of discovery,
\* and every page of the output's period numbered strictly between 1 and the
\* references page is kept verbatim.
C10_AscendingAndVerbatim ==
  \A id \in DOMAIN processed :
    LET parts == processed[id]
        r == ToInt(reference_pages[id])
    IN  /\ \A i, j \in 1..Len(parts) :
             i < j => /\ parts[i].page <= parts[j].page
                      /\ Cardinality(PeriodsOf(id)) = 1 =>
                           parts[i].page < parts[j].page
        /\ \A f \in FilesOf(id) :
             /\ f.month = article_months[id]
             /\ 1 < ToInt(f.page)
             /\ ToInt(f.page) < r
             => \E i \in 1..Len(parts) :
                  parts[i] = [ page |-> ToInt(f.page), content |-> mmd[f] ]

\* C10 witness: pages 1, 2 and BigPage were kept in that order, page 2
\* verbatim, and the two-digit page was discovered first.
C10_Witness ==
  \E id \in DOMAIN processed :
    /\ Len(processed[id]) = 3
    /\ processed[id][2].page = 2
    /\ processed[id][3].page = BigPage
    /\ article_pages[id][1] = ToStr(BigPage)

\* The lines of text before its first references heading, when it has one.
BeforeReferencesHeading(text) ==
  LET lines == splitlines(text)
      k == CHOOSE i \in 1..Len(lines) :
             /\ StartsWithHash(lines[i]) /\ ContainsReferences(lines[i])
             /\ \A j \in 1..(i - 1) :
                  ~(StartsWithHash(lines[j]) /\ ContainsReferences(lines[j]))
  IN  SubSeq(lines, 1, k - 1)

\* The str whose lines are ls ("" when there are none).
StrOf(ls) == IF ls = <<>> THEN << "" >> ELSE ls

\* C7: a references page numbered above 1 whose first line, lower-cased,
\* starts with "# reference" contributes nothing; any other references page
\* contributes exactly its lines before its first references heading.
C7_ReferencesPageRule ==
  ( /\ fn = "process_page"
    /\ res.page_num > 1
    /\ res.page_num = res.ref_page
    /\ HasReferencesHeading(arg) )
  => IF StartsWithRefHeading(splitlines(arg)[1])
     THEN res.out.kind = "skip"
     ELSE /\ res.out.kind = "append"
          /\ res.out.content = StrOf(BeforeReferencesHeading(arg))

\* C7 witness: a references page with prose, then the heading, then entries,
\* contributed its prose only.
C7_Witness ==
  /\ fn = "process_page"
  /\ res.page_num = 2
  /\ res.ref_page = 2
  /\ arg = << "Lorem ipsum", "# References", "see references [1]" >>
  /\ res.out = [ kind |-> "append", content |-> << "Lorem ipsum" >> ]

\* The lines of text from its first abstract heading on, when it has one.
FromAbstractHeading(text) ==
  LET lines == splitlines(text)
      k == CHOOSE i \in 1..Len(lines) :
             /\ StartsWithHash(lines[i]) /\ ContainsAbstract(lines[i])
             /\ \A j \in 1..(i - 1) :
                  ~(StartsWithHash(lines[j]) /\ ContainsAbstract(lines[j]))
  IN  SubSeq(lines, k, Len(lines))

HasAbstractHeading(text) ==
  \E i \in 1..Len(splitlines(text)) :
     /\ StartsWithHash(splitlines(text)[i])
     /\ ContainsAbstract(splitlines(text)[i])

\* C8: for a page 1 with a heading line containing "abstract", the page kept is
\* line 0, one empty line, and every line from the first such heading to the
\* end of the page, and nothing else.
C8_AuthorsRemoved ==
  ( /\ fn = "process_page"
    /\ res.page_num = 1
    /\ HasAbstractHeading(arg) )
  => /\ res.out.kind = "append"
     /\ res.out.content =
          << splitlines(arg)[1], "" >> \o FromAbstractHeading(arg)

\* C8 witness: the page of title, authors, abstract heading and text.
C8_Witness ==
  /\ fn = "process_page"
  /\ res.page_num = 1
  /\ arg = << "# Title", "Author A, Author B", "# Abstract", "Lorem ipsum" >>
  /\ res.out.content = << "# Title", "", "# Abstract", "Lorem ipsum" >>

\* The source documents the audit has classified.
Audited == { k \in DOMAIN pdfs \ pdf_todo : pdfs[k] # Unreadable }

\* The page numbers of the page artifacts of a document id.
ObservedSet(id) == { ToInt(f.page) : f \in FilesOf(id) }

Range(xs) == { xs[i] : i \in 1..Len(xs) }

\* C2: a source document with true page count N and an entry in the page
\* index is classified COMPLETE iff the number of its page artifacts is N and
\* the set of their page numbers is {1..N}, also when a page number was
\* collected twice.
C2_CompleteIffExact ==
  \A k \in Audited :
    FilesOf(k[2]) # {} =>
      ( << k[2], pdfs[k][1] >> \in Range(complete) <=>
          /\ Cardinality(FilesOf(k[2])) = pdfs[k][1]
          /\ ObservedSet(k[2]) = 1..pdfs[k][1] )

\* C3: for a document classified INCOMPLETE with true page count N, the
\* missing pages reported are the ascending list of the page numbers of
\* {1..N} absent from the observed set, those above the largest observed
\* page number included.
C3_MissingPagesReported ==
  \A k \in Audited :
    ( /\ \E i \in 1..Len(incomplete) :
            incomplete[i][1] = k[2] /\ incomplete[i][2] = pdfs[k][1]
      /\ (1..pdfs[k][1]) \ ObservedSet(k[2]) # {} )
    => \E i \in 1..Len(gaps) :
         /\ gaps[i][1] = k[2]
         /\ Range(gaps[i][2]) = (1..pdfs[k][1]) \ ObservedSet(k[2])
         /\ \A a, b \in 1..Len(gaps[i][2]) :
              a < b => gaps[i][2][a] < gaps[i][2][b]

\* The entries of a list for a document id.
EntriesFor(xs, id) == { i \in 1..Len(xs) : xs[i][1] = id }

\* C4: every source document whose page count was read is in exactly one of
\* the lists complete, incomplete and missing, and in missing iff the page
\* index has no entry for its id; the three counts add up to the number of
\* source documents whose page count was read.
C4_ExactlyOneList ==
  /\ Len(complete) + Len(incomplete) + Len(missing) = Cardinality(Audited)
  /\ \A id \in Ids :
       LET n == Cardinality({ k \in Audited : k[2] = id })
       IN  IF FilesOf(id) = {}
           THEN /\ Cardinality(EntriesFor(missing, id)) = n
                /\ EntriesFor(complete, id) = {}
                /\ EntriesFor(incomplete, id) = {}
           ELSE /\ EntriesFor(missing, id) = {}
                /\ Cardinality(EntriesFor(complete, id))
                     + Cardinality(EntriesFor(incomplete, id)) = n

\* C4 witness: the audit ended with one document complete, one missing.
C4_Witness ==
  /\ pc = "audited"
  /\ Len(complete) = 1
  /\ Len(missing) = 1
  /\ Len(incomplete) = 0

\* C11: when postprocess.py has run twice over the same page artifacts, the
\* output files after the second run are those after the first run, with the
\* same content, whatever the orders of the directory listings.
C11_SecondRunSameOutputs ==
  (run = 2 /\ Returned) => outputs = first_outputs

\* The files whose names parse into (document_id, page_number).
WellFormed ==
  { f \in DOMAIN mmd : ~parse_filename_raises(f) /\ ~int_raises(f.page) }

\* C12: a file whose name does not parse into (document_id, page_number), for
\* want of a "_" or of a numeric page part, is skipped: no ValueError raised on
\* a name ends the run, and after indexing every well-formed file is among
\* the recorded pages of its document.
C12_MalformedNameSkipped ==
  /\ error.type # "ValueError"
  /\ months_done = Months =>
       \A f \in WellFormed :
         /\ f.id \in DOMAIN article_pages
         /\ f.page \in { article_pages[f.id][i] :
                           i \in 1..Len(article_pages[f.id]) }

\* C13: a page artifact that cannot be read is treated as absent: after
\* indexing it is not among the recorded pages of its document, and no read
\* failure ends the run.
C13_UnreadablePageAbsent ==
  /\ error.type # "UnicodeDecodeError"
  /\ months_done = Months =>
       \A f \in WellFormed :
         mmd[f] = Undecodable =>
           \/ f.id \notin DOMAIN article_pages
           \/ f.page \notin { article_pages[f.id][i] :
                                i \in 1..Len(article_pages[f.id]) }

\* The source documents of an id that the audit has visited and could read.
ReadAndVisited(id) ==
  { k \in DOMAIN pdfs \ pdf_todo : k[2] = id /\ pdfs[k] # Unreadable }

\* C14: a source document whose page count cannot be read gets no entry: the
\* entries of an id in complete, incomplete and missing are as many as its
\* source documents visited whose page count was read, each with a page count
\* that was read; and the audit ends only when every source document was
\* visited.
C14_UnreadablePdfExcluded ==
  /\ \A id \in Ids :
       /\ Cardinality(EntriesFor(complete, id))
            + Cardinality(EntriesFor(incomplete, id))
            + Cardinality(EntriesFor(missing, id))
          = Cardinality(ReadAndVisited(id))
       /\ \A xs \in { complete, incomplete, missing } :
            \A i \in EntriesFor(xs, id) :
              \E k \in ReadAndVisited(id) : xs[i][2] = pdfs[k][1]
  /\ pc = "audited" => pdf_todo = {}

\* C14 witness: the audit ended; of the two source documents of "a" one could
\* not be read, and the other is the only entry of the lists.
C14_Witness ==
  /\ pc = "audited"
  /\ DOMAIN pdfs = { << "0001", "a" >>, << "0002", "a" >> }
  /\ pdfs[<< "0001", "a" >>] = Unreadable
  /\ pdfs[<< "0002", "a" >>] # Unreadable
  /\ Len(complete) + Len(incomplete) + Len(missing) = 1

\* C15: when page 1 of a valid document has a line containing "abstract" but
\* no heading line containing it, the first page kept is line 0 followed by
\* one empty line, and no other line of page 1.
C15_NoAbstractHeadingKeepsTitleOnly ==
  ( /\ fn = "process_page"
    /\ res.page_num = 1
    /\ HeadingCount(arg) > 1
    /\ HasAbstractLine(arg)
    /\ ~HasAbstractHeading(arg) )
  => /\ res.out.kind = "append"
     /\ res.out.content = << splitlines(arg)[1], "" >>

\* C16: when the references page recorded for a document is page 1, what is
\* kept of page 1 has no line from its references heading on: no references
\* heading is left in it.
C16_FirstPageAsReferencesPage ==
  \A id \in DOMAIN processed :
    ToInt(reference_pages[id]) = 1 =>
      \A i \in 1..Len(processed[id]) :
        processed[id][i].page = 1 =>
          ~HasReferencesHeading(processed[id][i].content)

\* C17: after indexing, the page numbers recorded for a document are pairwise
\* distinct and each comes from a page artifact of the one period recorded
\* for the document; no page is kept twice in a reconstruction.
C17_DocumentsKeyedByPeriod ==
  /\ Indexed =>
       \A id \in DOMAIN article_pages :
         LET pages == article_pages[id]
         IN  /\ \A i, j \in 1..Len(pages) : i # j => pages[i] # pages[j]
             /\ \A i \in 1..Len(pages) :
                  \E f \in FilesOf(id) :
                    f.month = article_months[id] /\ f.page = pages[i]
  /\ \A id \in DOMAIN processed :
       \A i, j \in 1..Len(processed[id]) :
         i # j => processed[id][i].page # processed[id][j].page

\* The page artifacts of a document's recorded period that the rules keep:
\* page 1, the pages below the references page, and the references page when
\* its first line does not start with "# reference".
Contributing(id) ==
  { f \in FilesOf(id) :
      /\ f.month = article_months[id]
      /\ \/ ToInt(f.page) < ToInt(reference_pages[id])
         \/ ToInt(f.page) = 1
         \/ /\ ToInt(f.page) = ToInt(reference_pages[id])
            /\ splitlines(mmd[f]) # <<>>
            /\ ~StartsWithRefHeading(splitlines(mmd[f])[1]) }

Gapped(id) ==
  /\ id \in get_valid_articles
  /\ id \in DOMAIN reference_pages
  /\ Cardinality(PeriodsOf(id)) = 1
  /\ \E n \in 1..(ToInt(reference_pages[id]) - 1) : PagesNumbered(id, n) = {}

\* What the page rules make of the page numbered n of such a document.
RuleOn(id, n) ==
  process_page(n, ToInt(reference_pages[id]),
               mmd[CHOOSE f \in PagesNumbered(id, n) : TRUE])

\* The contents the rules keep of the pages present, in ascending page order.
KeptOfPresent(id) ==
  LET ns == sorted_set({ n \in ObservedSet(id) : RuleOn(id, n).kind = "append" })
  IN  [ i \in 1..Len(ns) |-> RuleOn(id, ns[i]).content ]

\* C19: for a valid document with references page r and page numbers below r
\* missing, reconstruction raises no error, and once the loop has gone
\* through the document its output file is the join of the processed
\* contents of the pages that are present, in ascending page order.
C19_GapsDoNotGateReconstruction ==
  Indexed =>
    \A id \in Ids :
      Gapped(id) =>
        /\ error.at # id
        /\ (pc \in { "postprocess", "crashed" } /\ id \notin todo) =>
             /\ id \in DOMAIN processed
             /\ << article_months[id], id >> \in DOMAIN outputs
             /\ outputs[<< article_months[id], id >>] =
                  join_strs(KeptOfPresent(id))

\* C19 witness: a document with pages 1, 2 and BigPage only, the last its
\* references page, was reconstructed from the three.
C19_Witness ==
  /\ Indexed
  /\ Gapped("a")
  /\ ObservedSet("a") = { 1, 2, BigPage }
  /\ ToInt(reference_pages["a"]) = BigPage
  /\ "a" \in DOMAIN processed
  /\ Len(processed["a"]) = 3

\* The tar files main has visited.
Visited == DOMAIN tars \ tar_todo

\* Whether a tar file name has five parts with digits in the third and fourth.
WellNamed(parts) == Len(parts) = 5 /\ isdigit(parts[3]) /\ isdigit(parts[4])

\* C20: a tar file is deleted only after all its PDF members were extracted
\* without error and only when keep_tars is false; when its name is malformed
\* or a step raised, the call returned False and the tar file is in place;
\* main has counted each tar file visited once, as successful or as failed.
C20_TarDeletedOnlyAfterFullExtraction ==
  /\ \A t \in DOMAIN tars \ tar_files :
       /\ t \in Visited
       /\ ~keep_tars
       /\ WellNamed(t)
       /\ extracted[t].raised = "none"
       /\ extracted[t].count = tars[t]
  /\ \A t \in Visited :
       (~WellNamed(t) \/ extracted[t].raised # "none") =>
         ~extracted[t].ret /\ t \in tar_files
  /\ successful = Cardinality({ t \in Visited : extracted[t].ret })
  /\ failed = Cardinality({ t \in Visited : ~extracted[t].ret })
  /\ successful + failed = Cardinality(Visited)

\* C20 witness: the run ended with one tar file deleted after its two members
\* were extracted, and one left in place whose second member raised.
C20_Witness ==
  /\ pc = "extracted"
  /\ successful = 1
  /\ failed = 1
  /\ \E t \in Visited :
       t \notin tar_files /\ extracted[t].count = 2
  /\ \E t \in Visited :
       /\ t \in tar_files
       /\ extracted[t].raised = "extract"
       /\ extracted[t].count = 1

====
